---- MODULE Spec2Model ----
(***************************************************************************)
(* Model of src/unpack.py: the submission extraction-and-validation        *)
(* pipeline (Submission, submission_info, the batch driver unpack).        *)
(*                                                                         *)
(* Strings are sequences of one-character strings, so that the path and    *)
(* suffix computations of pathlib / posixpath / str are computed as the    *)
(* code computes them.  Notes are records: "kind" is the literal text of   *)
(* the f-string, the other fields are the values substituted into it.      *)
(* The filesystem is a set of paths: a regular file is its path, a         *)
(* directory is its path followed by "/".                                  *)
(***************************************************************************)
EXTENDS Integers, Sequences, FiniteSets, TLC

VARIABLES
    config,   \* the Policy: the namedtuple load_config returns
    fs,       \* the filesystem: its regular files and its directories
    env,      \* what the run does not decide: archives (what each archive
              \* yields and how its extractor exits), installed (the programs
              \* found in PATH), order (the order in which the filesystem
              \* lists names), odd (what a command does whose words the model
              \* does not interpret), fs0 (the filesystem at the start)
    path,     \* the staging folder handed to submission_info
    s,        \* the Submission object being processed
    pc,       \* where the driver or the caller stands
    i,        \* the position of unpack's loop in s.files
    k,        \* the number of staging folders the driver has taken up
    ratings,  \* the driver's list of rendered reports
    trace,    \* per validate() call on s: notes after it and the value returned
    handed,   \* per file of s handed to an extractor: the file, the exit
              \* status, what the process wrote to its standard error, the
              \* content of the target when the extractor returned
    raised    \* the exception that left the call, "none" when there is none

vars == <<config, fs, env, path, s, pc, i, k, ratings, trace, handed, raised>>

(***************************************************************************)
(* str / posixpath / pathlib                                               *)
(***************************************************************************)
Drop(str, n) == SubSeq(str, n + 1, Len(str))

Take(str, n) == SubSeq(str, 1, n)

\* str.startswith
StartsWith(str, p) == Len(p) <= Len(str) /\ Take(str, Len(p)) = p

\* str.endswith
EndsWith(str, p) == Len(p) <= Len(str) /\ Drop(str, Len(str) - Len(p)) = p

\* c in str, for a single character c
Contains(str, c) == \E j \in 1..Len(str) : str[j] = c

\* str.find(c) + 1: the first position of c, 0 when there is none
Find(str, c) ==
    IF Contains(str, c)
    THEN CHOOSE j \in 1..Len(str) : str[j] = c /\ \A l \in 1..(j - 1) : str[l] # c
    ELSE 0

\* str.rfind(c) + 1: the last position of c, 0 when there is none
RFind(str, c) ==
    IF Contains(str, c)
    THEN CHOOSE j \in 1..Len(str) : str[j] = c /\ \A l \in (j + 1)..Len(str) : str[l] # c
    ELSE 0

\* str.split(c): the pieces between the occurrences of c
RECURSIVE Split(_, _)
Split(str, c) ==
    IF Contains(str, c)
    THEN <<Take(str, Find(str, c) - 1)>> \o Split(Drop(str, Find(str, c)), c)
    ELSE <<str>>

\* "".join(list)
RECURSIVE Join(_)
Join(list) == IF list = <<>> THEN <<>> ELSE Head(list) \o Join(Tail(list))

\* str.lstrip(c)
RECURSIVE LStrip(_, _)
LStrip(str, c) == IF str # <<>> /\ Head(str) = c THEN LStrip(Tail(str), c) ELSE str

\* str.replace(old, ""): every non-overlapping occurrence, left to right
RECURSIVE Replace(_, _)
Replace(str, old) ==
    IF old = <<>> \/ str = <<>> THEN str
    ELSE IF StartsWith(str, old) THEN Replace(Drop(str, Len(old)), old)
    ELSE <<Head(str)>> \o Replace(Tail(str), old)

\* the characters str.split() splits at (those a string here can hold)
Whitespace ==
    {" ", "\t", "\n", "\r", "\f", "", "", "", "", "", "", " ", " "}

\* str.split(): the tokens between runs of whitespace
RECURSIVE Tokens(_)
Tokens(str) ==
    LET ws  == {j \in 1..Len(str) : str[j] \in Whitespace}
        end == IF ws = {} THEN Len(str) + 1 ELSE CHOOSE j \in ws : \A l \in ws : j <= l
    IN  IF str = <<>> THEN <<>>
        ELSE IF end = 1 THEN Tokens(Tail(str))
        ELSE <<Take(str, end - 1)>> \o Tokens(Drop(str, end - 1))

\* os.path.basename
basename(p) == Drop(p, RFind(p, "/"))

\* os.path.join(a, b)
path_join(a, b) ==
    IF StartsWith(b, <<"/">>) THEN b
    ELSE IF a = <<>> \/ EndsWith(a, <<"/">>) THEN a \o b
    ELSE a \o <<"/">> \o b

\* pathlib.PurePath.name, for a path that does not end in "/"
PathName(p) == Drop(p, RFind(p, "/"))

\* pathlib.PurePath.suffix: i = name.rfind('.'); name[i:] if 0 < i < len(name) - 1
PathSuffix(p) ==
    LET name == PathName(p)
        j    == RFind(name, ".")
    IN  IF 1 < j /\ j < Len(name) THEN Drop(name, j - 1) ELSE <<>>

\* pathlib.PurePath.suffixes
PathSuffixes(p) ==
    LET name   == PathName(p)
        pieces == Split(LStrip(name, "."), ".")
    IN  IF EndsWith(name, <<".">>) THEN <<>>
        ELSE [j \in 1..(Len(pieces) - 1) |-> <<".">> \o pieces[j + 1]]

(***************************************************************************)
(* Names used to build the inputs                                          *)
(***************************************************************************)
Ext_zip == <<".", "z", "i", "p">>

Ext_rar == <<".", "r", "a", "r">>

Ext_targz == <<".", "t", "a", "r", ".", "g", "z">>

Ext_7z == <<".", "7", "z">>

Ext_pdf == <<".", "p", "d", "f">>

Ext_gz == <<".", "g", "z">>

Ext_txt == <<".", "t", "x", "t">>

\* the staging directory of the run (tempfile.TemporaryDirectory: absolute)
Tmp == <<"/", "t">>

\* args.target, by default "x"
Base == <<"x">>

\* student folders of the bundle: "J D_1", "J D_2" (a namesake), "K_3"
Dir_JD1 == <<"J", " ", "D", "_", "1">>

Dir_JD2 == <<"J", " ", "D", "_", "2">>

Dir_K3 == <<"K", "_", "3">>

\* a regular file at the top level of the bundle: "L_4"
Dir_L4 == <<"L", "_", "4">>

\* a student folder whose name holds a tab between the names
Dir_JtD1 == <<"J", "\t", "D", "_", "1">>

\* file names: "a.zip", "b.tar.gz", "c^.zip", "n.txt", "e.pdf", "p.pdf", and
\* directories "s" (with "s/c.txt", or "s/s", a file named like its
\* directory), "u" and "p.pdf" (with "p.pdf/p.pdf")
N_azip == <<"a">> \o Ext_zip

N_btgz == <<"b">> \o Ext_targz

N_caret == <<"c", "^">> \o Ext_zip

N_ntxt == <<"n">> \o Ext_txt

N_epdf == <<"e">> \o Ext_pdf

N_ppdf == <<"p">> \o Ext_pdf

N_ctxt == <<"c">> \o Ext_txt

N_s == <<"s">>

N_sc == N_s \o <<"/">> \o N_ctxt

N_ss == N_s \o <<"/">> \o N_s

N_pp == N_ppdf \o <<"/">> \o N_ppdf

N_u == <<"u">>

\* names that hold "^", the separator of the command templates: "a^.zip"
\* (unzip is given "a" for its zipfile and ".zip" for a member), "^-f.pdf"
\* (mv is given the staging folder and the word "-f.pdf"), "^-v.tar.gz"
\* (tar is given the staging folder for its archive and the word "-v.tar.gz")
N_acaret == <<"a", "^">> \o Ext_zip

N_fpdf == <<"^", "-", "f">> \o Ext_pdf

N_vtgz == <<"^", "-", "v">> \o Ext_targz

\* an archive member named ".zip"
N_dotzip == Ext_zip

\* a name whose command ends the words to leave out with an attached "-d"
N_axd == <<"a", "^", "-", "x", "^", "-", "d", "s", "^">> \o Ext_zip

\* every name of the model, in one listing order of the filesystem
NameOrder == <<Dir_JD1, Dir_JD2, Dir_K3, Dir_L4, N_azip, N_btgz, N_caret, N_ntxt, N_epdf, N_ppdf,
               N_ctxt, N_s, N_u, N_acaret, N_fpdf, N_vtgz, N_dotzip, N_axd>>

Reverse(seq) == [j \in 1..Len(seq) |-> seq[Len(seq) + 1 - j]]

ListingOrders == {NameOrder, Reverse(NameOrder)}

(***************************************************************************)
(* Submission                                                              *)
(***************************************************************************)
\* Submission.__init__
Submission(full_name, surname, first_names, files, cfg) ==
    [ full_name        |-> full_name,
      surname          |-> surname,
      first_names      |-> first_names,
      files            |-> files,
      notes            |-> <<>>,
      total_points     |-> cfg.points,
      allowed_suffixes |-> cfg.allowed_suffixes,
      file_limit       |-> cfg.file_limit,
      template         |-> cfg.template,
      filetypes        |-> cfg.content_filetypes,
      warnings         |-> cfg.warnings ]

NoteMoreThan(limit) == [kind |-> "more than {file_limit} file", limit |-> limit]

NoteWrongFiletype(file) == [kind |-> "wrong filetype ({file})", file |-> file]

NoteIllegalChar(file) == [kind |-> "illegal char in filename ({file})", file |-> file]

\* a variant of the file-count test: >= in place of >
OverLimit_AtLeast(n, limit) == n >= limit

\* the file-count test of validate: len(self.files) > self.file_limit
OverLimit(n, limit) == n > limit

\* the suffix validate compares with allowed_suffixes
ValidateSuffix(file) == PathSuffix(file)

\* the body of validate's loop for one file: the notes it appends
ValidateOne(self, file) ==
    (IF ValidateSuffix(file) \notin self.allowed_suffixes
     THEN <<NoteWrongFiletype(file)>> ELSE <<>>)
    \o (IF Contains(file, "^") THEN <<NoteIllegalChar(file)>> ELSE <<>>)

RECURSIVE ValidateLoop(_, _)
ValidateLoop(self, files) ==
    IF files = <<>> THEN <<>>
    ELSE ValidateOne(self, Head(files)) \o ValidateLoop(self, Tail(files))

\* a variant of validate that starts from an empty note list on every call
validate_Fresh(self) ==
    LET notes == (IF OverLimit(Len(self.files), self.file_limit)
                  THEN <<NoteMoreThan(self.file_limit)>> ELSE <<>>)
                 \o ValidateLoop(self, self.files)
    IN  [self |-> [self EXCEPT !.notes = notes], ret |-> 0 - Len(notes)]

\* Submission.validate: the object after the call, and the value returned
validate(self) ==
    LET added == (IF OverLimit(Len(self.files), self.file_limit)
                  THEN <<NoteMoreThan(self.file_limit)>> ELSE <<>>)
                 \o ValidateLoop(self, self.files)
        notes == self.notes \o added
    IN  [self |-> [self EXCEPT !.notes = notes], ret |-> 0 - Len(notes)]

NoteIllegalFiletype(suffix, cleared) ==
    [kind |-> "illegal filetype '{suffix}' ({cleared})", suffix |-> suffix, cleared |-> cleared]

NoteWrongName(file) == [kind |-> "wrong filetype/name ({f})", file |-> file]

NoteUnpackFail(stderr, file, cmd) ==
    [kind |-> "unpack fail: {r.stderr} @ {f} ({cmd}", stderr |-> stderr, file |-> file, cmd |-> cmd]

\* str.format of a warning template: a template is a sequence of pieces, the
\* pieces "{path}", "{suffix}" and "{name}" are its placeholders
WarnFormat(tpl, p, suffix, name) ==
    [kind |-> "warning",
     text |-> [j \in DOMAIN tpl |->
                 IF tpl[j] = "{path}" THEN [val |-> p]
                 ELSE IF tpl[j] = "{suffix}" THEN [val |-> suffix]
                 ELSE IF tpl[j] = "{name}" THEN [val |-> name]
                 ELSE [lit |-> tpl[j]]]]

\* the suffix validate_file looks up in self.filetypes
ContentSuffix(p) == PathSuffix(p)

\* Submission.validate_file: the notes it appends (none or one)
validate_file(self, p, base) ==
    LET suffix == ContentSuffix(p)
    IN  IF suffix \notin self.filetypes
        THEN LET cleared  == Replace(p, base)
                 filetype == Drop(suffix, 1)
             IN  IF filetype \notin DOMAIN self.warnings
                 THEN <<NoteIllegalFiletype(suffix, cleared)>>
                 ELSE <<WarnFormat(self.warnings[filetype], cleared, suffix, PathName(p))>>
        ELSE <<>>

(***************************************************************************)
(* The filesystem: os.path.isdir, os.path.exists, os.makedirs, os.walk     *)
(***************************************************************************)
\* the entry of a filesystem that stands for directory d
DirEntry(d) == d \o <<"/">>

\* os.path.isdir
IsDir(p, files) == DirEntry(p) \in files

\* os.path.isfile
IsFile(p, files) == p \in files /\ ~EndsWith(p, <<"/">>)

\* os.path.exists
Exists(p, files) == p \in files \/ IsDir(p, files)

\* the directories above path p (the root directory left out)
Parents(p) == {Take(p, j) : j \in {l \in 2..Len(p) : p[l] = "/"}}

\* a set of regular files together with the directories that hold them
Tree(regular) == regular \cup UNION {Parents(p) : p \in regular}

\* the regular files below directory top
Below(top, files) ==
    {p \in files : StartsWith(p, DirEntry(top)) /\ ~EndsWith(p, <<"/">>)}

\* os.makedirs(p, exist_ok=True)
makedirs(p, files) ==
    IF p \in files
    THEN [files |-> files, raised |-> "FileExistsError"]
    ELSE IF \E d \in Parents(DirEntry(p)) : Take(d, Len(d) - 1) \in files
    THEN [files |-> files, raised |-> "NotADirectoryError"]
    ELSE [files |-> files \cup Parents(DirEntry(p)), raised |-> "none"]

\* os.scandir(top): the entries in the order the filesystem lists them
\* (order: every name of the model, in listing order)
ScanFiles(top, files, order) ==
    SelectSeq(order, LAMBDA n : path_join(top, n) \in files)

ScanDirs(top, files, order) ==
    SelectSeq(order, LAMBDA n : IsDir(path_join(top, n), files))

\* os.walk(top), top-down: the (root, dirs, files) triples in the order
\* yielded; none when top is not a directory
RECURSIVE walk(_, _, _)
RECURSIVE WalkDirs(_, _, _, _)
walk(top, files, order) ==
    LET dirs == ScanDirs(top, files, order)
    IN  IF ~IsDir(top, files) THEN <<>>
        ELSE <<[root |-> top, dirs |-> dirs, files |-> ScanFiles(top, files, order)]>>
             \o WalkDirs(top, dirs, files, order)

WalkDirs(top, dirs, files, order) ==
    IF dirs = <<>> THEN <<>>
    ELSE walk(path_join(top, Head(dirs)), files, order)
         \o WalkDirs(top, Tail(dirs), files, order)

\* the inner loop of validate_files over one triple's files
RECURSIVE ValidateNames(_, _, _, _)
ValidateNames(self, root, names, base) ==
    IF names = <<>> THEN <<>>
    ELSE validate_file(self, path_join(root, Head(names)), base)
         \o ValidateNames(self, root, Tail(names), base)

RECURSIVE ValidateTriples(_, _, _)
ValidateTriples(self, triples, base) ==
    IF triples = <<>> THEN <<>>
    ELSE ValidateNames(self, Head(triples).root, Head(triples).files, base)
         \o ValidateTriples(self, Tail(triples), base)

\* Submission.validate_files: the notes it appends
validate_files(self, target, base, files, order) ==
    ValidateTriples(self, walk(target, files, order), base)

(***************************************************************************)
(* The archive dispatcher: the unpackers table and subprocess.run          *)
(***************************************************************************)
\* the module-level table unpackers; "{file}" and "{target}" are the
\* placeholders of its command templates
unpackers ==
    (Ext_zip :> <<"u", "n", "z", "i", "p", "^", "-", "o", "^", "{file}", "^", "-", "d", "^", "{target}">>)
    @@ (Ext_rar :> <<"u", "n", "r", "a", "r", "^", "x", "^", "-", "o", "+", "^", "{file}", "^", "{target}">>)
    @@ (Ext_targz :> <<"t", "a", "r", "^", "-", "x", "z", "f", "^", "{file}", "^", "-", "C", "^", "{target}">>)
    @@ (Ext_7z :> <<"7", "z", "^", "x", "^", "{file}", "^", "-", "o", "{target}">>)
    @@ (Ext_pdf :> <<"m", "v", "^", "{file}", "^", "{target}">>)

\* unpackers[filetype].format(file=f, target=target)
CmdFormat(tpl, file, target) ==
    Join([j \in DOMAIN tpl |->
            IF tpl[j] = "{file}" THEN file
            ELSE IF tpl[j] = "{target}" THEN target
            ELSE <<tpl[j]>>])

\* the compound extension unpack looks up: "".join(Path(f).suffixes)
UnpackFiletype(f) == Join(PathSuffixes(f))

\* the programs of the unpackers table
Prog_unzip == <<"u", "n", "z", "i", "p">>

Prog_unrar == <<"u", "n", "r", "a", "r">>

Prog_tar == <<"t", "a", "r">>

Prog_7z == <<"7", "z">>

Prog_mv == <<"m", "v">>

Programs == {Prog_unzip, Prog_unrar, Prog_tar, Prog_7z, Prog_mv}

\* the entries of a filesystem that a path stands for: a regular file
\* itself, a directory with everything below it
Subtree(p, files) == {e \in files : e = p \/ StartsWith(e, DirEntry(p))}

\* rename(2) of src to dst, where it succeeds: the regular file or the
\* directory with all below it goes to dst, in the place of what was there
Rename(src, dst, files) ==
    ((files \ Subtree(src, files)) \ Subtree(dst, files))
    \cup {dst \o Drop(e, Len(src)) : e \in Subtree(src, files)}

\* whether rename(2) of src to dst succeeds: src exists, the directory that
\* is to hold dst exists, a regular file does not replace a directory, a
\* directory replaces nothing but an empty directory and does not go below
\* itself
Renames(src, dst, files) ==
    /\ Exists(src, files)
    /\ Parents(dst) \subseteq files
    /\ ~StartsWith(DirEntry(dst), DirEntry(src))
    /\ IF IsDir(src, files)
       THEN dst \notin files /\ Subtree(dst, files) \subseteq {DirEntry(dst)}
       ELSE ~IsDir(dst, files)

\* an operand of a command without the "/"s it may end in
RECURSIVE Operand(_)
Operand(m) == IF Len(m) > 1 /\ EndsWith(m, <<"/">>) THEN Operand(Take(m, Len(m) - 1)) ELSE m

\* the components of a path joined with "/"
RECURSIVE JoinPath(_)
JoinPath(comps) ==
    IF comps = <<>> THEN <<>>
    ELSE IF Len(comps) = 1 THEN comps[1]
    ELSE comps[1] \o <<"/">> \o JoinPath(Tail(comps))

\* the entry a process reaches by a path: empty components and "."
\* components count for nothing; "." is the working directory, "/" the root
Norm(p) ==
    IF p = <<>> THEN <<>>
    ELSE CHOOSE out \in
            {IF Head(p) = "/" THEN <<"/">> \o c ELSE IF c = <<>> THEN <<".">> ELSE c :
                c \in {JoinPath(SelectSeq(Split(p, "/"), LAMBDA w : w # <<>> /\ w # <<".">>))}} : TRUE

\* whether a path has a ".." component
DotDot(p) == \E j \in DOMAIN Split(p, "/") : Split(p, "/")[j] = <<".", ".">>

\* whether the last component of a path is "." or ".."
LastDot(p) == basename(Operand(p)) \in {<<".">>, <<".", ".">>}

\* whether a path can only name a directory: it ends in "/" or in "."
DirLike(p) == EndsWith(p, <<"/">>) \/ EndsWith(p, <<"/", ".">>) \/ p = <<".">>

\* whether a resolved path is a directory for a process: the working
\* directory and the root always are
Folder(p, files) == p \in {<<".">>, <<"/">>} \/ IsDir(p, files)

\* the path of name m in the directory dir of a process
Under(dir, m) == IF dir = <<".">> THEN m ELSE path_join(dir, m)

\* a process that exits with status rc and leaves the filesystem as it was
Refuses(rc, err, files) == [returncode |-> rc, err |-> err, files |-> files]

\* A command this model does not interpret (an option of the program other
\* than those of the unpackers table, a path with a ".." component, a run
\* that ends part-way through the archive, members of one archive that stand
\* in each other's way, a malformed unrar or 7z command): the environment
\* says what it does, e.odd holds its exit status, its error output and the
\* regular files it adds and the entries it removes.
Odd(files, e) ==
    [returncode |-> e.odd.rc,
     err        |-> e.odd.err,
     files      |-> (files \ e.odd.removed) \cup Tree(e.odd.added)]

\* whether one of the paths is to be a directory above another of them
Clash(paths) == \E p \in paths, q \in paths : DirEntry(p) \in Parents(q)

\* whether a regular file stands where a directory above p is to be
Barred(p, files) == \E d \in Parents(p) : Take(d, Len(d) - 1) \in files

(***************************************************************************)
(* unzip -o ZIPFILE [member ...] [-x member ...] [-d exdir]                *)
(***************************************************************************)
\* the match of a member name against a pattern of unzip: "*" stands for
\* any characters, "?" for any one character
RECURSIVE Glob(_, _)
Glob(pat, str) ==
    IF pat = <<>> THEN str = <<>>
    ELSE IF Head(pat) = "*"
    THEN Glob(Tail(pat), str) \/ (str # <<>> /\ Glob(pat, Tail(str)))
    ELSE IF str = <<>> THEN FALSE
    ELSE (Head(pat) = "?" \/ Head(pat) = Head(str)) /\ Glob(Tail(pat), Tail(str))

\* the position of the first pattern that matches member m, 0 when none does
UnzipFirst(pats, m) ==
    IF \E j \in DOMAIN pats : Glob(pats[j], m)
    THEN CHOOSE j \in DOMAIN pats : Glob(pats[j], m) /\ \A l \in 1..(j - 1) : ~Glob(pats[l], m)
    ELSE 0

\* The words after the zipfile, read from position p on as unzip reads them.
\* The member words are the nf words from position pf, the words to leave
\* out the nx words from position px.  The first word that begins with "-d"
\* names the directory to extract into, in the word itself or in the next
\* one: it ends the list it stands in (and leaves a hole there); as the
\* first word it is followed by the member words.  "-x", outside the words
\* to leave out, ends the member words and starts the words to leave out,
\* which run to the end.  A word after the directory of a "-d" that ended a
\* list belongs to no list, but a "-x" after such a word counts the member
\* words up to itself, the hole included.
RECURSIVE UnzipWords(_, _, _)
UnzipWords(words, p, acc) ==
    IF p > Len(words) THEN acc
    ELSE IF ~acc.dset /\ StartsWith(words[p], <<"-", "d">>)
    THEN LET q   == IF Len(words[p]) > 2 THEN p ELSE p + 1
             cut == [acc EXCEPT !.dset  = TRUE,
                                !.holes = IF acc.inf \/ acc.inx THEN @ \cup {p} ELSE @,
                                !.nf    = IF acc.inf THEN p - acc.pf ELSE @,
                                !.nx    = IF ~acc.inf /\ acc.inx THEN p - acc.px ELSE @,
                                !.inf   = FALSE,
                                !.exdir = IF Len(words[p]) > 2 THEN Drop(words[p], 2)
                                          ELSE IF q <= Len(words) THEN words[q] ELSE <<>>]
         IN  IF q > Len(words) THEN [acc EXCEPT !.bad = TRUE]
             ELSE IF p > 1 THEN UnzipWords(words, q + 1, cut)
             ELSE IF q = Len(words) THEN [cut EXCEPT !.all = TRUE]
             ELSE UnzipWords(words, q + 1, [cut EXCEPT !.pf = q + 1, !.nf = Len(words) - q])
    ELSE IF acc.inx THEN UnzipWords(words, p + 1, acc)
    ELSE IF words[p] = <<"-", "x">>
    THEN UnzipWords(words, p + 1,
                    [acc EXCEPT !.inx   = TRUE,
                                !.holes = IF p # acc.pf /\ acc.inf THEN @ \cup {p} ELSE @,
                                !.nf    = IF p = acc.pf THEN 0 ELSE IF acc.inf THEN p - acc.pf ELSE @,
                                !.inf   = FALSE,
                                !.px    = p + 1,
                                !.nx    = Len(words) - p])
    ELSE UnzipWords(words, p + 1, [acc EXCEPT !.inf = TRUE])

\* what the words after the zipfile ask of unzip: the directory to extract
\* into, the member words up to the first hole among them (incl), the words
\* to leave out (excl), whether every member is asked for (all), whether
\* there is a hole among the member words, whether a "-d" lacks its
\* directory (bad)
UnzipArgs(words) ==
    CHOOSE out \in
        {LET gaps == {h \in r.holes : r.pf <= h /\ h < r.pf + r.nf}
             stop == IF gaps = {} THEN r.pf + r.nf ELSE CHOOSE h \in gaps : \A g \in gaps : h <= g
         IN  [exdir |-> r.exdir,
              all   |-> r.all,
              bad   |-> r.bad,
              hole  |-> gaps # {},
              incl  |-> SubSeq(words, r.pf, stop - 1),
              excl  |-> SubSeq(words, r.px, r.px + r.nx - 1)] :
            r \in {UnzipWords(words, 1,
                              [exdir |-> <<>>, dset |-> FALSE, inf |-> FALSE, inx |-> FALSE,
                               pf |-> 1, nf |-> Len(words), px |-> 1, nx |-> 0,
                               holes |-> {}, all |-> words = <<>>, bad |-> FALSE])}} : TRUE

\* the archive unzip opens for a zipfile word: the file of that name, else
\* the file of that name with ".zip", else with ".ZIP"; none when there is
\* no such archive
UnzipArchive(spec, files, archives) ==
    SelectSeq(<<Norm(spec), Norm(spec \o <<".", "z", "i", "p">>), Norm(spec \o <<".", "Z", "I", "P">>)>>,
              LAMBDA a : IsFile(a, files) /\ a \in DOMAIN archives)

\* the members of the archive that the member words select: all without
\* member words
UnzipSelected(written, args) ==
    IF args.all \/ (args.incl = <<>> /\ ~args.hole) THEN written
    ELSE {m \in written : UnzipFirst(args.incl, m) # 0}

\* the members that unzip extracts: those selected that no word to leave
\* out matches
UnzipTaken(written, args) ==
    IF args.all THEN written
    ELSE {m \in UnzipSelected(written, args) : UnzipFirst(args.excl, m) = 0}

\* whether every member word is the first to match some member
UnzipMatched(written, args) ==
    \/ args.all
    \/ /\ ~args.hole
       /\ \A j \in DOMAIN args.incl : \E m \in written : UnzipFirst(args.incl, m) = j

\* whether every word to leave out is the first to match some member selected
UnzipExcluded(written, args) ==
    \/ args.all
    \/ \A j \in DOMAIN args.excl :
          \E m \in UnzipSelected(written, args) : UnzipFirst(args.excl, m) = j

\* whether unzip reads a word as this model does: no bracket expression and
\* no escape in a pattern
UnzipPlain(word) == ~Contains(word, "[") /\ ~Contains(word, "\\")

\* unzip with its words read (args): exit status 10 for a "-d" without a
\* directory, 9 when no archive is found, 2 when the directory to extract
\* into cannot be made (it is made when the directory above it exists).  A
\* member is not extracted where a regular file stands for a directory
\* above it (exit status 2) or a directory stands in its place (50); the
\* other members taken replace the files of their names.  The exit status
\* is 11 when a member word matches nothing or no member is taken.  unzip
\* writes to its standard error when a word matches nothing, when a member
\* is not extracted and when the file of the zipfile word is no archive.  A
\* member that matches no member word before a hole ends the run part-way.
UnzipRun(cmd, args, files, e) ==
    LET found == UnzipArchive(cmd[3], files, e.archives)
        a     == e.archives[found[1]]
        exdir == Norm(IF args.exdir = <<>> THEN <<".">> ELSE args.exdir)
        made  == IF Folder(exdir, files) THEN files ELSE files \cup {DirEntry(exdir)}
        taken == UnzipTaken(a.written, args)
        paths == {Under(exdir, m) : m \in taken}
        bar   == {p \in paths : Barred(p, made)}
        old   == {p \in paths \ bar : IsDir(p, made)}
        clean == UnzipMatched(a.written, args) /\ (taken # {} \/ a.written = {})
        quiet == /\ bar = {} /\ old = {}
                 /\ UnzipMatched(a.written, args)
                 /\ UnzipExcluded(a.written, args)
                 /\ found[1] = Norm(cmd[3]) \/ ~IsFile(Norm(cmd[3]), files)
    IN  IF args.bad
        THEN Refuses(10, "error:  must specify directory to which to extract with -d option", files)
        ELSE IF DotDot(cmd[3]) \/ DotDot(args.exdir)
        THEN Odd(files, e)
        ELSE IF found = <<>>
        THEN Refuses(9, "unzip:  cannot find or open", files)
        ELSE IF ~Folder(exdir, files) /\ (Exists(exdir, files) \/ ~(Parents(exdir) \subseteq files))
        THEN Refuses(2, "checkdir:  cannot create extraction directory", files)
        ELSE IF (args.hole /\ UnzipSelected(a.written, args) # a.written) \/ Clash(paths)
        THEN Odd(files, e)
        ELSE [returncode |-> IF a.rc # 0 THEN a.rc
                             ELSE IF old # {} THEN 50
                             ELSE IF bar # {} THEN 2
                             ELSE IF clean THEN 0 ELSE 11,
              err        |-> IF a.rc # 0 \/ quiet THEN a.err
                             ELSE IF old # {} THEN "error:  cannot delete old"
                             ELSE IF bar # {} THEN "checkdir error:  exists but is not directory"
                             ELSE "caution: filename not matched",
              files      |-> made \cup Tree((paths \ bar) \ old)]

\* unzip -o and the words after it; a zipfile word that is an option or a
\* pattern, and a bracket expression or an escape in any word, are left to
\* the environment
Unzip(cmd, files, e) ==
    IF Len(cmd) < 3 \/ cmd[2] # <<"-", "o">> \/ StartsWith(cmd[3], <<"-">>)
       \/ Contains(cmd[3], "*") \/ Contains(cmd[3], "?")
       \/ \E j \in 3..Len(cmd) : ~UnzipPlain(cmd[j])
    THEN Odd(files, e)
    ELSE CHOOSE out \in
            {UnzipRun(cmd, args, files, e) : args \in {UnzipArgs(Drop(cmd, 3))}} : TRUE

(***************************************************************************)
(* tar -xzf ARCHIVE [member ...] [-C dir] [member ...]                     *)
(***************************************************************************)
\* the words after the archive: "-C" changes the directory for the members
\* named after it (an absolute directory stands for itself, "." for the
\* directory before, any other counts from the directory before), "--" ends
\* the options; every other word that begins with "-" and is longer is an
\* option; the rest are member names, each with the directory it is
\* extracted in (good: tar can enter it)
RECURSIVE TarWords(_, _, _)
TarWords(words, acc, files) ==
    IF words = <<>> THEN acc
    ELSE IF acc.ended \/ ~StartsWith(Head(words), <<"-">>) \/ Len(Head(words)) = 1
    THEN TarWords(Tail(words),
                  [acc EXCEPT !.names = Append(acc.names, [name |-> Head(words),
                                                            dir  |-> acc.dir,
                                                            good |-> acc.good])],
                  files)
    ELSE IF Head(words) = <<"-", "-">>
    THEN TarWords(Tail(words), [acc EXCEPT !.ended = TRUE], files)
    ELSE IF StartsWith(Head(words), <<"-", "C">>)
    THEN IF Len(Head(words)) = 2 /\ Tail(words) = <<>>
         THEN [acc EXCEPT !.bad = TRUE]
         ELSE LET arg  == IF Len(Head(words)) > 2 THEN Drop(Head(words), 2) ELSE words[2]
                  rest == IF Len(Head(words)) > 2 THEN Tail(words) ELSE Tail(Tail(words))
                  dir  == Under(acc.dir, Norm(arg))
              IN  IF DotDot(arg) THEN [acc EXCEPT !.odd = TRUE]
                  ELSE IF Norm(arg) = <<".">> THEN TarWords(rest, acc, files)
                  ELSE IF StartsWith(arg, <<"/">>)
                  THEN TarWords(rest, [acc EXCEPT !.dir = Norm(arg), !.good = Folder(Norm(arg), files)], files)
                  ELSE TarWords(rest,
                                [acc EXCEPT !.dir  = dir,
                                            !.good = acc.good /\ arg # <<>> /\ Folder(dir, files)],
                                files)
    ELSE [acc EXCEPT !.odd = TRUE]

\* whether a member name of the command line names member m: m itself or a
\* directory above it; the empty name names none
TarNames(name, m) ==
    /\ name # <<>>
    /\ m = Operand(name) \/ StartsWith(m, DirEntry(Operand(name)))

\* the position of the member name that takes member m, 0 when none does
TarFirst(names, m) ==
    IF \E j \in DOMAIN names : TarNames(names[j].name, m)
    THEN CHOOSE j \in DOMAIN names :
            TarNames(names[j].name, m) /\ \A l \in 1..(j - 1) : ~TarNames(names[l].name, m)
    ELSE 0

\* what the words after the archive ask of tar: an empty first member name
\* asks for every member, in the directory it stands in, and the names
\* after it count for nothing
TarArgs(words, files) ==
    CHOOSE out \in
        {IF r.names # <<>> /\ r.names[1].name = <<>>
         THEN [r EXCEPT !.dir = r.names[1].dir, !.good = r.names[1].good, !.names = <<>>]
         ELSE r :
            r \in {TarWords(words,
                            [dir |-> <<".">>, good |-> TRUE, names |-> <<>>,
                             ended |-> FALSE, bad |-> FALSE, odd |-> FALSE],
                            files)}} : TRUE

\* tar with its words read (args): exit status 64 for a "-C" without a
\* directory, 2 when the archive cannot be read, when tar cannot enter a
\* directory to extract in, when a member name names nothing.  Without
\* member names every member is extracted in the directory of the last
\* "-C"; with them every member named is extracted in the directory of the
\* first name that names it.  A member is not extracted (exit status 2)
\* where a regular file stands for a directory above it or a directory that
\* is not empty stands in its place; it replaces an empty directory.  What
\* tar has extracted when it finds, part-way, that it cannot enter a
\* directory is left to the environment.
TarRun(cmd, args, files, e) ==
    LET a     == e.archives[Norm(cmd[3])]
        taken == IF args.names = <<>> THEN a.written
                 ELSE {m \in a.written : TarFirst(args.names, m) # 0}
        used  == {TarFirst(args.names, m) : m \in taken}
        paths == IF args.names = <<>>
                 THEN {Under(args.dir, m) : m \in taken}
                 ELSE {Under(args.names[TarFirst(args.names, m)].dir, m) : m \in taken}
        bar   == {p \in paths : Barred(p, files)}
        full  == {p \in paths \ bar : IsDir(p, files) /\ Subtree(p, files) # {DirEntry(p)}}
        void  == {p \in (paths \ bar) \ full : IsDir(p, files)}
        clean == /\ bar = {} /\ full = {}
                 /\ \/ args.names = <<>>
                    \/ used = {j \in DOMAIN args.names : args.names[j].name # <<>>}
    IN  IF args.odd \/ DotDot(cmd[3])
        THEN Odd(files, e)
        ELSE IF args.bad
        THEN Refuses(64, "tar: option requires an argument -- 'C'", files)
        ELSE IF ~IsFile(Norm(cmd[3]), files) \/ Norm(cmd[3]) \notin DOMAIN e.archives
        THEN Refuses(2, "tar: Error is not recoverable: exiting now", files)
        ELSE IF args.names = <<>> /\ taken # {} /\ ~args.good
        THEN Refuses(2, "tar: Error is not recoverable: exiting now", files)
        ELSE IF args.names # <<>> /\ \A j \in used : ~args.names[j].good
        THEN Refuses(2, IF used = {} THEN "tar: Not found in archive"
                        ELSE "tar: Error is not recoverable: exiting now", files)
        ELSE IF (args.names # <<>> /\ \E j \in used : ~args.names[j].good) \/ Clash(paths)
        THEN Odd(files, e)
        ELSE [returncode |-> IF a.rc # 0 THEN a.rc ELSE IF clean THEN 0 ELSE 2,
              err        |-> IF a.rc # 0 \/ clean THEN a.err
                             ELSE IF bar # {} \/ full # {} THEN "tar: Cannot open"
                             ELSE "tar: Not found in archive",
              files      |-> (files \ {DirEntry(p) : p \in void}) \cup Tree((paths \ bar) \ full)]

\* tar -xzf and the words after it; an archive word that begins with "-" is
\* left to the environment
Tar(cmd, files, e) ==
    IF Len(cmd) < 3 \/ cmd[2] # <<"-", "x", "z", "f">> \/ StartsWith(cmd[3], <<"-">>)
    THEN Odd(files, e)
    ELSE CHOOSE out \in
            {TarRun(cmd, args, files, e) : args \in {TarArgs(Drop(cmd, 3), files)}} : TRUE

(***************************************************************************)
(* mv SOURCE... DEST                                                       *)
(***************************************************************************)
\* the letters of a word of mv that begins with one "-": "f" and "v" change
\* nothing here; "t" and "S" take the rest for their argument ("stop"), the
\* other options of mv ("odd") change what it does; any other character is
\* no option of mv ("usage")
RECURSIVE MvCluster(_)
MvCluster(chars) ==
    IF chars = <<>> THEN "plain"
    ELSE IF Head(chars) \in {"t", "S"} THEN "stop"
    ELSE IF Head(chars) \in {"f", "v"} THEN MvCluster(Tail(chars))
    ELSE IF Head(chars) \in {"b", "i", "n", "u", "T", "Z"}
    THEN IF MvCluster(Tail(chars)) = "plain" THEN "odd" ELSE MvCluster(Tail(chars))
    ELSE "usage"

\* the words of mv: options are taken wherever they stand, up to a "--";
\* "-" alone is an operand.  class is "usage" when a word is no option of
\* mv, "odd" when an option changes what mv does, else "plain".
RECURSIVE MvWords(_, _)
MvWords(words, acc) ==
    IF words = <<>> THEN acc
    ELSE IF acc.ended \/ ~StartsWith(Head(words), <<"-">>) \/ Len(Head(words)) = 1
    THEN MvWords(Tail(words), [acc EXCEPT !.operands = Append(acc.operands, Head(words))])
    ELSE IF Head(words) = <<"-", "-">>
    THEN MvWords(Tail(words), [acc EXCEPT !.ended = TRUE])
    ELSE IF StartsWith(Head(words), <<"-", "-">>) \/ MvCluster(Tail(Head(words))) = "stop"
    THEN [acc EXCEPT !.class = "odd"]
    ELSE IF MvCluster(Tail(Head(words))) = "usage"
    THEN [acc EXCEPT !.class = "usage"]
    ELSE IF MvCluster(Tail(Head(words))) = "odd"
    THEN MvWords(Tail(words), [acc EXCEPT !.class = "odd"])
    ELSE MvWords(Tail(words), acc)

\* whether mv moves source word m to the path to: the source is no empty
\* word and does not end in "." or "..", it exists, and is a directory when
\* the word can only name one; the destination is no regular file made by
\* this very command; and rename(2) succeeds
MvMoves(m, to, files, made) ==
    /\ m # <<>>
    /\ ~LastDot(m)
    /\ DirLike(m) => IsDir(Norm(m), files)
    /\ ~(to \in made /\ to \in files)
    /\ Renames(Norm(m), to, files)

\* mv of one source into directory dst: the filesystem after it, the
\* destinations made so far, and whether a source could not be moved
MvOne(m, dst, files, made, failed) ==
    IF m # <<>> /\ ~LastDot(m) /\ MvMoves(m, Under(dst, basename(Norm(m))), files, made)
    THEN [files  |-> Rename(Norm(m), Under(dst, basename(Norm(m))), files),
          made   |-> made \cup {Under(dst, basename(Norm(m)))},
          failed |-> failed]
    ELSE [files |-> files, made |-> made, failed |-> TRUE]

\* mv of the sources, one after another, into directory dst
RECURSIVE MvInto(_, _, _)
MvInto(srcs, dst, st) ==
    IF srcs = <<>> THEN st
    ELSE CHOOSE end \in
            {MvInto(Tail(srcs), dst, next) :
                next \in {MvOne(Head(srcs), dst, st.files, st.made, st.failed)}} : TRUE

\* whether this model reads the operands of mv: the root is none of them,
\* ".." is a component only of a source that ends in "." or ".."
MvPlain(ops) ==
    /\ ~DotDot(ops[Len(ops)]) /\ Norm(ops[Len(ops)]) # <<"/">>
    /\ \A j \in 1..(Len(ops) - 1) : LastDot(ops[j]) \/ (~DotDot(ops[j]) /\ Norm(ops[j]) # <<"/">>)

\* mv with its words read (args): exit status 1 and nothing moved for a
\* word that is no option, for fewer than two operands, for several sources
\* when the last operand is no directory; else every source that can be
\* moved is moved, into the last operand when that is a directory, onto it
\* otherwise, and the exit status is 1 when one could not be
MvRun(args, files, e) ==
    LET ops  == args.operands
        last == ops[Len(ops)]
        dst  == Norm(last)
        into == MvInto(Take(ops, Len(ops) - 1), dst, [files |-> files, made |-> {}, failed |-> FALSE])
        onto == /\ last # <<>>
                /\ ops[1] # <<>> /\ ~LastDot(ops[1])
                /\ DirLike(last) => IsDir(Norm(ops[1]), files)
                /\ MvMoves(ops[1], dst, files, {})
    IN  IF args.class = "usage"
        THEN Refuses(1, "mv: invalid option", files)
        ELSE IF args.class = "odd"
        THEN Odd(files, e)
        ELSE IF Len(ops) < 2
        THEN Refuses(1, "mv: missing file operand", files)
        ELSE IF ~MvPlain(ops)
        THEN Odd(files, e)
        ELSE IF Folder(dst, files)
        THEN [returncode |-> IF into.failed THEN 1 ELSE 0,
              err        |-> IF into.failed THEN "mv: cannot move" ELSE "",
              files      |-> into.files]
        ELSE IF Len(ops) > 2
        THEN Refuses(1, "mv: target is not a directory", files)
        ELSE IF onto
        THEN [returncode |-> 0, err |-> "", files |-> Rename(Norm(ops[1]), dst, files)]
        ELSE Refuses(1, "mv: cannot move", files)

\* mv and the words after it
Mv(cmd, files, e) ==
    CHOOSE out \in
        {MvRun(args, files, e) :
            args \in {MvWords(Tail(cmd), [operands |-> <<>>, ended |-> FALSE, class |-> "plain"])}} : TRUE

(***************************************************************************)
(* unrar x -o+ ARCHIVE dir, 7z x ARCHIVE -odir                             *)
(***************************************************************************)
\* the archive and the directory of an unrar or 7z command of exactly the
\* words of the unpackers table
CmdShape(cmd) ==
    IF cmd[1] = Prog_unrar /\ Len(cmd) = 5
    THEN [ok     |-> cmd[2] = <<"x">> /\ cmd[3] = <<"-", "o", "+">>
                     /\ ~StartsWith(cmd[4], <<"-">>) /\ ~StartsWith(cmd[5], <<"-">>),
          file   |-> cmd[4],
          target |-> cmd[5]]
    ELSE IF cmd[1] = Prog_7z /\ Len(cmd) = 4
    THEN [ok     |-> cmd[2] = <<"x">> /\ ~StartsWith(cmd[3], <<"-">>)
                     /\ StartsWith(cmd[4], <<"-", "o">>),
          file   |-> cmd[3],
          target |-> Drop(cmd[4], 2)]
    ELSE [ok |-> FALSE, file |-> <<>>, target |-> <<>>]

\* unrar and 7z: the extractor writes what the environment says the archive
\* yields (archives[file].written, relative to the directory) and exits with
\* archives[file].rc, writing archives[file].err to its standard error; a
\* command that names no archive writes nothing and fails
Extract(cmd, files, e) ==
    LET c == CmdShape(cmd)
    IN  IF ~c.ok
        THEN Odd(files, e)
        ELSE IF IsFile(c.file, files) /\ c.file \in DOMAIN e.archives
        THEN [returncode |-> e.archives[c.file].rc,
              err        |-> e.archives[c.file].err,
              files      |-> files \cup Tree({path_join(c.target, m) :
                                                m \in e.archives[c.file].written})]
        ELSE Refuses(1, "cannot open archive", files)

\* What the external command does to the filesystem, the exit status it
\* returns and what it writes to its standard error.
Process(cmd, files, e) ==
    IF cmd[1] = Prog_mv THEN Mv(cmd, files, e)
    ELSE IF cmd[1] = Prog_unzip THEN Unzip(cmd, files, e)
    ELSE IF cmd[1] = Prog_tar THEN Tar(cmd, files, e)
    ELSE IF cmd[1] \in {Prog_unrar, Prog_7z} THEN Extract(cmd, files, e)
    ELSE Odd(files, e)

\* subprocess.run(cmd, stdout=DEVNULL, stderr=PIPE if capture_stderr else None):
\* FileNotFoundError when the program is not found in PATH; otherwise the
\* process runs, and CompletedProcess.stderr is None unless the caller asked
\* to capture it
run(cmd, capture_stderr, files, e) ==
    IF cmd[1] \notin e.installed
    THEN [raised |-> "FileNotFoundError", returncode |-> 0, stderr |-> "None", files |-> files]
    ELSE CHOOSE r \in {[raised     |-> "none",
                        returncode |-> out.returncode,
                        stderr     |-> IF capture_stderr THEN out.err ELSE "None",
                        files      |-> out.files] : out \in {Process(cmd, files, e)}} : TRUE

\* shutil.move(src, dst): into dst when dst is a directory, where nothing
\* of the name of src may exist; else onto dst.  Where rename(2) fails a
\* directory is copied with copytree, which makes the directories above dst
\* and refuses a dst that exists, and a regular file with copy2.
move(src, dst, files) ==
    LET real_dst == IF IsDir(dst, files) THEN path_join(dst, basename(src)) ELSE dst
        above    == {Take(d, Len(d) - 1) : d \in Parents(real_dst)}
    IN  IF IsDir(dst, files) /\ Exists(real_dst, files)
        THEN [files |-> files, raised |-> "shutil.Error"]
        ELSE IF Renames(src, real_dst, files)
        THEN [files |-> Rename(src, real_dst, files), raised |-> "none"]
        ELSE IF ~Exists(src, files)
        THEN [files |-> files, raised |-> "FileNotFoundError"]
        ELSE IF IsDir(src, files) /\ StartsWith(DirEntry(real_dst), DirEntry(src))
        THEN [files |-> files, raised |-> "shutil.Error"]
        ELSE IF above \cap files # {}
        THEN [files |-> files, raised |-> "NotADirectoryError"]
        ELSE IF ~IsDir(src, files)
        THEN [files |-> files, raised |-> "FileNotFoundError"]
        ELSE IF real_dst \in files
        THEN [files |-> files, raised |-> "FileExistsError"]
        ELSE [files |-> Rename(src, real_dst, files \cup Parents(real_dst)), raised |-> "none"]

\* the directory unpack extracts into
UnpackTarget(self, base) == path_join(base, self.surname \o <<"-">> \o self.first_names)

\* a variant of the iteration below that checks the content of the target
\* only when the extractor succeeded
UnpackFile_CheckOnSuccess(self, f, base, files, e) ==
    LET target   == UnpackTarget(self, base)
        filetype == UnpackFiletype(f)
    IN  IF filetype \in DOMAIN unpackers
        THEN LET cmd == Split(CmdFormat(unpackers[filetype], f, target), "^")
             IN  CHOOSE after \in
                    {LET fail  == IF r.returncode # 0
                                  THEN <<NoteUnpackFail(r.stderr, f, cmd)>> ELSE <<>>
                         self1 == [self EXCEPT !.notes = self.notes \o fail]
                     IN  IF r.raised # "none"
                         THEN [self |-> self, files |-> files, raised |-> r.raised, handed |-> <<>>]
                         ELSE
                         [self   |-> IF r.returncode # 0 THEN self1
                                     ELSE [self1 EXCEPT !.notes =
                                             self1.notes
                                             \o validate_files(self1, target, base, r.files, e.order)],
                          files  |-> r.files,
                          raised |-> "none",
                          handed |-> <<[file |-> f, returncode |-> r.returncode,
                                        err |-> out.err,
                                        content |-> Below(target, r.files)]>>] :
                     r \in {run(cmd, FALSE, files, e)}, out \in {Process(cmd, files, e)}} : TRUE
        ELSE LET note == IF Drop(filetype, 1) \in DOMAIN self.warnings
                         THEN WarnFormat(self.warnings[Drop(filetype, 1)], f, filetype, f)
                         ELSE NoteWrongName(f)
                 m    == move(f, target, files)
             IN  [self   |-> [self EXCEPT !.notes = Append(self.notes, note)],
                  files  |-> m.files,
                  raised |-> m.raised,
                  handed |-> <<>>]

\* One iteration of the loop of Submission.unpack, for top-level file f:
\* the object and the filesystem after it, the exception it raised, and for
\* a recognised file the content of the target when the extractor returned.
\* (r, the CompletedProcess, and out, what the process did, are bound as the
\* elements of singletons: the command runs once.)
UnpackFile(self, f, base, files, e) ==
    LET target   == UnpackTarget(self, base)
        filetype == UnpackFiletype(f)
    IN  IF filetype \in DOMAIN unpackers
        THEN LET cmd == Split(CmdFormat(unpackers[filetype], f, target), "^")
             IN  CHOOSE after \in
                    {LET fail  == IF r.returncode # 0
                                  THEN <<NoteUnpackFail(r.stderr, f, cmd)>> ELSE <<>>
                         self1 == [self EXCEPT !.notes = self.notes \o fail]
                     IN  IF r.raised # "none"
                         THEN [self |-> self, files |-> files, raised |-> r.raised, handed |-> <<>>]
                         ELSE
                         [self   |-> [self1 EXCEPT !.notes =
                                        self1.notes
                                        \o validate_files(self1, target, base, r.files, e.order)],
                          files  |-> r.files,
                          raised |-> "none",
                          handed |-> <<[file |-> f, returncode |-> r.returncode,
                                        err |-> out.err,
                                        content |-> Below(target, r.files)]>>] :
                     r \in {run(cmd, FALSE, files, e)}, out \in {Process(cmd, files, e)}} : TRUE
        ELSE LET note == IF Drop(filetype, 1) \in DOMAIN self.warnings
                         THEN WarnFormat(self.warnings[Drop(filetype, 1)], f, filetype, f)
                         ELSE NoteWrongName(f)
                 m    == move(f, target, files)
             IN  [self   |-> [self EXCEPT !.notes = Append(self.notes, note)],
                  files  |-> m.files,
                  raised |-> m.raised,
                  handed |-> <<>>]

\* The loop of Submission.unpack over the files left, run to its end or to
\* the first exception
RECURSIVE UnpackLoop(_, _, _, _, _)
UnpackLoop(self, left, base, files, e) ==
    IF left = <<>>
    THEN [self |-> self, files |-> files, raised |-> "none"]
    ELSE LET r == UnpackFile(self, Head(left), base, files, e)
         IN  IF r.raised # "none"
             THEN [self |-> r.self, files |-> r.files, raised |-> r.raised]
             ELSE UnpackLoop(r.self, Tail(left), base, r.files, e)

\* Submission.unpack(base), as one call
unpack(self, base, files, e) ==
    LET made == makedirs(UnpackTarget(self, base), files)
    IN  IF made.raised # "none"
        THEN [self |-> self, files |-> files, raised |-> made.raised]
        ELSE UnpackLoop(self, self.files, base, made.files, e)

\* Submission.ratings: the template with its three arguments; the notes
\* argument is the bullet list
SubmissionRatings(self) ==
    [template  |-> self.template,
     full_name |-> self.full_name,
     max       |-> self.total_points,
     notes     |-> [j \in DOMAIN self.notes |-> [bullet |-> "* ", note |-> self.notes[j]]]]

(***************************************************************************)
(* The submission factory                                                  *)
(***************************************************************************)
\* the loop of submission_info: every triple rebinds files to the triple's
\* own list of names and extends that list; the value after the loop
RECURSIVE CollectFiles(_, _, _)
CollectFiles(p, triples, files) ==
    IF triples = <<>> THEN files
    ELSE CollectFiles(p, Tail(triples),
                      Head(triples).files
                      \o [j \in DOMAIN Head(triples).files |-> path_join(p, Head(triples).files[j])])

\* submission_info(path, config); raised is "IndexError" when the full name
\* has no token
submission_info(p, cfg, files, order) ==
    LET full_name   == Head(Split(basename(p), "_"))
        tokens      == Tokens(full_name)
        surname     == tokens[Len(tokens)]
        keep        == Len(full_name) - Len(surname) - 1
        first_names == IF keep > 0 THEN Take(full_name, keep) ELSE <<>>
        collected   == CollectFiles(p, walk(p, files, order), <<>>)
        kept        == SelectSeq(collected, LAMBDA x : StartsWith(x, <<"/">>))
    IN  IF tokens = <<>>
        THEN [raised |-> "IndexError"]
        ELSE [raised |-> "none",
              sub    |-> Submission(full_name, surname, first_names, kept, cfg)]

(***************************************************************************)
(* Inputs                                                                  *)
(***************************************************************************)
MaxFiles == 2

MaxLimit == 2

MaxCalls == 3

MaxSubs == 2

Range(seq) == {seq[j] : j \in DOMAIN seq}

\* the sequences over S without repetition, of length lo..hi
Arrangements(S, lo, hi) ==
    UNION {{q \in [1..n -> S] : \A a, b \in 1..n : a # b => q[a] # q[b]} : n \in lo..hi}

\* a warning template with the three placeholders
WarnTemplate == <<"warn ", "{path}", " ", "{suffix}", " ", "{name}">>

Config(allowed, limit, filetypes, warnings) ==
    [points            |-> 10,
     allowed_suffixes  |-> allowed,
     file_limit        |-> limit,
     template          |-> "{full_name} {max} {notes}",
     content_filetypes |-> filetypes,
     warnings          |-> warnings]

NoWarnings == [x \in {} |-> WarnTemplate]

\* policies for the content checks: content_filetypes holds "pdf" (bare, as
\* the policy file is documented) or ".pdf"; "txt" is warned about or not
ContentConfigs ==
    {Config({Ext_zip}, 1, ft, w) :
        ft \in {{Drop(Ext_pdf, 1)}, {Ext_pdf}},
        w  \in {NoWarnings, Drop(Ext_txt, 1) :> WarnTemplate}}

\* a command the model does not interpret fails and changes nothing
NoOdd == [rc |-> 1, err |-> "", added |-> {}, removed |-> {}]

NoEnv == [archives |-> <<>>, installed |-> Programs, order |-> NameOrder, odd |-> NoOdd, fs0 |-> {}]

\* the listing orders that put the names of D, in any order, then the names
\* of F, in any order, before the other names of the model
ListingsOf(D, F) ==
    {d \o f \o SelectSeq(NameOrder, LAMBDA n : n \notin D \cup F) :
        d \in Arrangements(D, Cardinality(D), Cardinality(D)),
        f \in Arrangements(F, Cardinality(F), Cardinality(F))}

\* the programs found in PATH: all of them, or all but unzip when the
\* filesystem holds a file for it
Installations(files) ==
    {Programs} \cup {Programs \ {Prog_unzip} : q \in {f \in files : UnpackFiletype(f) = Ext_zip}}

\* the files of a filesystem that the unpackers table hands to an extractor
ArchivesOf(files) ==
    {p \in files : UnpackFiletype(p) \in (DOMAIN unpackers) \ {Ext_pdf}}

\* what an extractor may do with an archive: exit status, standard error,
\* and the members written (all of them, or some when it fails part-way)
Outcomes(members) ==
    {[rc |-> rc, err |-> IF rc = 0 THEN "" ELSE "bad archive", written |-> w] :
        rc \in {0, 1}, w \in SUBSET members}

Student == Submission(<<"J", " ", "D">>, <<"D">>, <<"J">>, <<>>, Config({}, 0, {}, NoWarnings))

(***************************************************************************)
(* Specification SpecValidate: validate() called on a Submission           *)
(***************************************************************************)
TopNames == {N_azip, N_btgz, N_caret, N_ntxt}

InitValidate ==
    /\ config \in {Config(a, l, {Ext_pdf}, NoWarnings) :
                      a \in SUBSET {Ext_zip, Ext_targz, Ext_gz}, l \in 0..MaxLimit}
    /\ \E files \in Arrangements({path_join(path_join(Tmp, Dir_JD1), n) : n \in TopNames},
                                 0, MaxFiles) :
          s = Submission(<<"J", " ", "D">>, <<"D">>, <<"J">>, files, config)
    /\ fs = {}
    /\ env = NoEnv
    /\ path = path_join(Tmp, Dir_JD1)
    /\ pc = "validate"
    /\ i = 0
    /\ k = 0
    /\ ratings = <<>>
    /\ trace = <<>>
    /\ handed = <<>>
    /\ raised = "none"

\* s.validate(), called again on the same object
Validate ==
    /\ pc = "validate"
    /\ Len(trace) < MaxCalls
    /\ s' = validate(s).self
    /\ trace' = Append(trace, [notes |-> validate(s).self.notes, ret |-> validate(s).ret])
    /\ UNCHANGED <<config, fs, env, path, pc, i, k, ratings, handed, raised>>

NextValidate == Validate

SpecValidate == InitValidate /\ [][NextValidate]_vars

(***************************************************************************)
(* Specification SpecFactory: submission_info on a staging folder          *)
(***************************************************************************)
FactoryPaths ==
    {path_join(Tmp, Dir_JD1), path_join(Tmp, Dir_K3), path_join(Tmp, Dir_JtD1),
     path_join(Drop(Tmp, 1), Dir_JD1)}

FactoryTree == {N_azip, N_ntxt, N_sc, N_ss, path_join(N_s, N_ntxt), path_join(N_u, N_epdf)}

InitFactory ==
    /\ config \in {Config({Ext_zip}, 1, {Ext_pdf}, NoWarnings)}
    /\ path \in FactoryPaths
    /\ \/ \E tree \in SUBSET FactoryTree : fs = Tree({path_join(path, m) : m \in tree})
       \/ fs = Tree({path})
    /\ \E o \in ListingsOf({}, {N_u, N_s, N_azip, N_ntxt, N_ctxt}) :
          env = [archives |-> <<>>, installed |-> Programs, order |-> o, odd |-> NoOdd, fs0 |-> fs]
    /\ s = Student
    /\ pc = "factory"
    /\ i = 0
    /\ k = 0
    /\ ratings = <<>>
    /\ trace = <<>>
    /\ handed = <<>>
    /\ raised = "none"

\* s = submission_info(path, config)
Factory ==
    /\ pc = "factory"
    /\ LET r == submission_info(path, config, fs, env.order)
       IN  IF r.raised = "none"
           THEN s' = r.sub /\ pc' = "built" /\ UNCHANGED raised
           ELSE raised' = r.raised /\ pc' = "raised" /\ UNCHANGED s
    /\ UNCHANGED <<config, fs, env, path, i, k, ratings, trace, handed>>

NextFactory == Factory

SpecFactory == InitFactory /\ [][NextFactory]_vars

(***************************************************************************)
(* The driver's steps on one submission: validate, unpack, ratings         *)
(***************************************************************************)
\* s.validate() in the driver
DriverValidate ==
    /\ pc = "call validate"
    /\ s' = validate(s).self
    /\ trace' = Append(trace, [notes |-> validate(s).self.notes, ret |-> validate(s).ret])
    /\ pc' = "call unpack"
    /\ UNCHANGED <<config, fs, env, path, i, k, ratings, handed, raised>>

\* s.unpack(args.target) up to its loop: makedirs(target, exist_ok=True)
UnpackBegin ==
    /\ pc = "call unpack"
    /\ LET made == makedirs(UnpackTarget(s, Base), fs)
       IN  IF made.raised # "none"
           THEN raised' = made.raised /\ pc' = "raised" /\ UNCHANGED <<i, fs>>
           ELSE i' = 1 /\ fs' = made.files /\ pc' = "unpack loop" /\ UNCHANGED raised
    /\ UNCHANGED <<config, env, path, s, k, ratings, trace, handed>>

\* the effect of one iteration of unpack's loop on the state
UnpackStep ==
    \E r \in {UnpackFile(s, s.files[i], Base, fs, env)} :
        /\ s' = r.self
        /\ fs' = r.files
        /\ handed' = handed \o r.handed
        /\ raised' = r.raised
        /\ IF r.raised = "none"
           THEN i' = i + 1 /\ pc' = pc
           ELSE i' = i /\ pc' = "raised"
        /\ UNCHANGED <<config, env, path, k, ratings, trace>>

\* an iteration for a file whose compound extension is in unpackers
UnpackArchive ==
    /\ pc = "unpack loop"
    /\ i <= Len(s.files)
    /\ UnpackFiletype(s.files[i]) \in DOMAIN unpackers
    /\ UnpackStep

\* an iteration for any other file
UnpackOther ==
    /\ pc = "unpack loop"
    /\ i <= Len(s.files)
    /\ UnpackFiletype(s.files[i]) \notin DOMAIN unpackers
    /\ UnpackStep

\* unpack returns
UnpackReturn ==
    /\ pc = "unpack loop"
    /\ i > Len(s.files)
    /\ pc' = "call ratings"
    /\ UNCHANGED <<config, fs, env, path, s, i, k, ratings, trace, handed, raised>>

\* ratings.append(s.ratings())
DriverRatings ==
    /\ pc = "call ratings"
    /\ ratings' = Append(ratings, SubmissionRatings(s))
    /\ pc' = "next submission"
    /\ UNCHANGED <<config, fs, env, path, s, i, k, trace, handed, raised>>

(***************************************************************************)
(* Specification SpecUnpack: one Submission with any file list, against    *)
(* any prior content of its target directory                               *)
(***************************************************************************)
UnpackNames == {N_azip, N_btgz, N_ntxt, N_ppdf, N_acaret, N_fpdf, N_vtgz, N_axd}

Members == {N_epdf, N_sc}

StudentTarget == UnpackTarget(Student, Base)

\* what the extractor of archive p may do: extract "e.pdf" and "s/c.txt", or
\* "e.pdf" alone (a zip archive also "e.pdf" and a member named ".zip"), and
\* exit with status 0; or fail, before it writes or after it wrote "e.pdf"
UnpackOutcomes(p) ==
    {o \in Outcomes(Members) :
        \/ o.rc = 0 /\ N_epdf \in o.written
        \/ o.rc # 0 /\ o.written \subseteq {N_epdf}}
    \cup IF UnpackFiletype(p) = Ext_zip
         THEN {[rc |-> 0, err |-> "", written |-> {N_epdf, N_dotzip}]}
         ELSE {}

\* what the tar command of "^-v.tar.gz" does: tar refuses the word
OddOutcomes ==
    {[rc |-> 64, err |-> "tar: invalid option", added |-> {}, removed |-> {}]}

InitUnpack ==
    /\ config \in ContentConfigs
    /\ path = path_join(Tmp, Dir_JD1)
    /\ \E files \in Arrangements({path_join(path, n) : n \in UnpackNames}, 1, MaxFiles),
          prior \in {{}, {path_join(StudentTarget, N_ntxt)}, {StudentTarget}},
          gone \in SUBSET {path_join(path, N_ntxt)} :
          /\ gone \subseteq Range(files)
          /\ gone # {} => prior = {}
          /\ s = Submission(<<"J", " ", "D">>, <<"D">>, <<"J">>, files, config)
          /\ fs = Tree((Range(files) \ gone) \cup prior)
    /\ \E o \in ListingOrders, inst \in Installations(fs), odd \in OddOutcomes \cup {NoOdd} :
          /\ odd \in OddOutcomes <=> path_join(path, N_vtgz) \in fs
          /\ \E a \in [{p \in ArchivesOf(fs) : ~Contains(p, "^")} -> UNION {UnpackOutcomes(p) : p \in fs}] :
                /\ \A p \in DOMAIN a : a[p] \in UnpackOutcomes(p)
                /\ env = [archives |-> a, installed |-> inst, order |-> o, odd |-> odd,
                          fs0 |-> fs]
    /\ pc = "call validate"
    /\ i = 0
    /\ k = 0
    /\ ratings = <<>>
    /\ trace = <<>>
    /\ handed = <<>>
    /\ raised = "none"

NextUnpack ==
    \/ DriverValidate
    \/ UnpackBegin
    \/ UnpackArchive
    \/ UnpackOther
    \/ UnpackReturn
    \/ DriverRatings

SpecUnpack == InitUnpack /\ [][NextUnpack]_vars

(***************************************************************************)
(* Specification SpecBatch: the driver unpack(args) on a staged bundle     *)
(***************************************************************************)
\* os.listdir(top)
listdir(top, files, order) ==
    SelectSeq(order, LAMBDA n : Exists(path_join(top, n), files))

\* what one student folder may hold: "a.zip", "p.pdf" or both, or one file
\* in a subfolder: "s/c.txt", "s/s" or "p.pdf/p.pdf"
BatchTree == {{N_azip}, {N_ppdf}, {N_azip, N_ppdf}, {N_sc}, {N_ss}, {N_pp}}

BatchMembers == {N_ntxt}

\* the bundle as extracted into the staging directory: folders -> content
Bundles ==
    UNION {[D -> BatchTree] :
             D \in {E \in SUBSET {Dir_JD1, Dir_JD2, Dir_K3} : E # {} /\ Cardinality(E) <= MaxSubs}}

\* the regular files that one student folder or one target directory may
\* list together during the run on bundle b with archives a
Listed(b, a) ==
    (UNION {b[d] : d \in DOMAIN b} \cap {N_azip, N_ppdf}) \cup UNION {a[f].written : f \in DOMAIN a}

\* the state when the driver enters its loop: the target directory made,
\* the policy loaded (content_filetypes holding ".pdf", so that what the
\* batch shows does not rest on how validate_file reads a bare suffix), the
\* bundle extracted into the staging directory.  The
\* bundle may hold a regular file at its top level, the target directory may
\* hold a regular file where a student's directory is to be made, unzip may
\* not be installed: at most one of the three.
InitBatch ==
    /\ config \in {c \in ContentConfigs :
                      c.warnings = NoWarnings /\ c.content_filetypes = {Ext_pdf}}
    /\ \E b \in Bundles, top \in SUBSET {Dir_L4}, prior \in SUBSET {StudentTarget} :
          /\ fs = Tree(UNION {{path_join(path_join(Tmp, d), m) : m \in b[d]} : d \in DOMAIN b})
                  \cup Tree({path_join(Tmp, n) : n \in top})
                  \cup {DirEntry(Base)} \cup prior
          /\ \E a \in [ArchivesOf(fs) -> Outcomes(BatchMembers)], inst \in Installations(fs) :
                /\ Cardinality(top) + Cardinality(prior) + Cardinality(Programs \ inst) <= 1
                /\ \E o \in ListingsOf(DOMAIN b \cup top, Listed(b, a)) :
                      env = [archives |-> a, installed |-> inst, order |-> o, odd |-> NoOdd,
                             fs0 |-> fs]
    /\ path = Tmp
    /\ s = Student
    /\ pc = "next submission"
    /\ i = 0
    /\ k = 0
    /\ ratings = <<>>
    /\ trace = <<>>
    /\ handed = <<>>
    /\ raised = "none"

\* the next round of the driver's loop: s = submission_info(path_join(tmp, i), config)
DriverNext ==
    /\ pc = "next submission"
    /\ k < Len(listdir(Tmp, env.fs0, env.order))
    /\ k' = k + 1
    /\ path' = path_join(Tmp, listdir(Tmp, env.fs0, env.order)[k + 1])
    /\ LET r == submission_info(path', config, fs, env.order)
       IN  IF r.raised = "none"
           THEN s' = r.sub /\ pc' = "call validate" /\ UNCHANGED raised
           ELSE raised' = r.raised /\ pc' = "raised" /\ UNCHANGED s
    /\ i' = 0
    /\ trace' = <<>>
    /\ handed' = <<>>
    /\ UNCHANGED <<config, fs, env, ratings>>

RatingsFile == <<"r", "a", "t", "i", "n", "g", "s", ".", "r", "s", "t">>

\* TemporaryDirectory.cleanup() when the with block is left: the staging
\* directory is removed with all it holds
cleanup(files) == {p \in files : ~StartsWith(p, DirEntry(Tmp))}

\* after the loop: the with block is left and the staging directory removed,
\* then the reports are written to ratings.rst in the target
DriverWrite ==
    /\ pc = "next submission"
    /\ k = Len(listdir(Tmp, env.fs0, env.order))
    /\ fs' = cleanup(fs) \cup {path_join(Base, RatingsFile)}
    /\ pc' = "done"
    /\ UNCHANGED <<config, env, path, s, i, k, ratings, trace, handed, raised>>

\* an exception leaves the with block: the staging directory is removed and
\* the exception leaves unpack(args); ratings.rst is not written
DriverUnwind ==
    /\ pc = "raised"
    /\ fs' = cleanup(fs)
    /\ pc' = "aborted"
    /\ UNCHANGED <<config, env, path, s, i, k, ratings, trace, handed, raised>>

NextBatch ==
    \/ DriverNext
    \/ DriverValidate
    \/ UnpackBegin
    \/ UnpackArchive
    \/ UnpackOther
    \/ UnpackReturn
    \/ DriverRatings
    \/ DriverWrite
    \/ DriverUnwind

SpecBatch == InitBatch /\ [][NextBatch]_vars

(***************************************************************************)
(* Properties                                                              *)
(***************************************************************************)
\* the number of occurrences of note n in a note list
Count(notes, n) == Cardinality({j \in DOMAIN notes : notes[j] = n})

\* the notes the j-th call of validate appended
Added(j) == Drop(trace[j].notes, IF j = 1 THEN 0 ELSE Len(trace[j - 1].notes))

\* the compound suffix of a file name: all its suffixes, concatenated
CompoundSuffix(f) == Join(PathSuffixes(f))

\* C2 (as claimed): a top-level file whose compound suffix is in the
\* allowed-suffix set and whose path holds no "^" gets no "wrong filetype"
\* and no "illegal char in filename" note from validate().
C2_AllowedCompoundSuffixGetsNoNote ==
    \A j \in DOMAIN trace : \A f \in Range(s.files) :
        (CompoundSuffix(f) \in s.allowed_suffixes /\ ~Contains(f, "^"))
            => /\ NoteWrongFiletype(f) \notin Range(Added(j))
               /\ NoteIllegalChar(f) \notin Range(Added(j))

\* C7 (as claimed): a second validate() on an unchanged file list leaves
\* notes as the first call left it and returns the same value.
C7_ValidateIdempotent ==
    Len(trace) >= 2 => trace[2].notes = trace[1].notes /\ trace[2].ret = trace[1].ret

\* C7 (amended): every further validate() on an unchanged file list appends
\* once more the notes the first call appended and returns minus the new
\* length of notes; notes and the returned value stay as they were exactly
\* when the first call appended nothing.
C7_ValidateAppendsAgain ==
    \A j \in 2..Len(trace) :
        /\ trace[j].notes = trace[j - 1].notes \o trace[1].notes
        /\ trace[j].ret = trace[j - 1].ret + trace[1].ret
        /\ trace[j].ret = 0 - Len(trace[j].notes)
        /\ (trace[j].notes = trace[j - 1].notes) <=> (trace[1].notes = <<>>)
        /\ (trace[j].ret = trace[j - 1].ret) <=> (trace[1].notes = <<>>)

\* C7: validate() was called twice on a submission with something to note
C7_Witness == pc = "validate" /\ Len(trace) = 2 /\ trace[1].notes # <<>>

\* C8: validate() on exactly file_limit + 1 top-level files appends the
\* "more than N file" note, with N = file_limit, once per call; on exactly
\* file_limit files it appends no "more than" note.
C8_FileLimitBoundary ==
    \A j \in DOMAIN trace :
        /\ Len(s.files) = s.file_limit + 1
              => Count(Added(j), NoteMoreThan(s.file_limit)) = 1
        /\ Len(s.files) = s.file_limit
              => \A n \in Range(Added(j)) : n.kind # NoteMoreThan(s.file_limit).kind

\* C8: validate() has run on two files under a limit of one
C8_Witness ==
    /\ pc = "validate"
    /\ Len(trace) >= 1
    /\ s.file_limit = 1
    /\ Len(s.files) = 2
    /\ NoteMoreThan(1) \in Range(s.notes)

\* C3 (as claimed): for an absolute staging path, the files of the
\* Submission that submission_info builds are the regular files of the whole
\* staging tree, each under a path at which it exists.
C3_FactoryCollectsWholeTree ==
    (pc = "built" /\ StartsWith(path, <<"/">>))
        => /\ Below(path, fs) \subseteq Range(s.files)
           /\ Range(s.files) \subseteq fs

\* the content of the target directory of the current submission
TargetContent == Below(UnpackTarget(s, Base), fs)

\* a file the content check does not accept: its suffix, as validate_file
\* reads it, is not in content_filetypes (under a policy of bare suffixes
\* this is every file, so also every file whose bare suffix is not listed)
NonConforming(p) == PathSuffix(p) \notin s.filetypes

\* the note the content check gives a file it does not accept: the warning
\* of its suffix when the policy has one, the rejection otherwise
ContentNote(p) ==
    IF Drop(PathSuffix(p), 1) \in DOMAIN s.warnings
    THEN WarnFormat(s.warnings[Drop(PathSuffix(p), 1)], Replace(p, Base), PathSuffix(p), PathName(p))
    ELSE NoteIllegalFiletype(PathSuffix(p), Replace(p, Base))

\* C1 (as claimed): a file of the target directory whose suffix without the
\* dot is in content_filetypes gets no content-validation note.
C1_AllowedContentGetsNoNote ==
    \A p \in TargetContent :
        Drop(PathSuffix(p), 1) \in s.filetypes => ContentNote(p) \notin Range(s.notes)

\* C4 (as claimed): unless the target directory cannot be created, validate()
\* and unpack() raise nothing and every top-level file is processed.
C4_NothingRaises ==
    raised \notin {"FileExistsError", "NotADirectoryError"} => raised = "none" /\ pc # "raised"

\* what the command run for a top-level file wrote to its standard error
ErrorOutput(h) == h.err

\* C5 (as claimed): an extractor that exits with nonzero status leaves exactly
\* one "unpack fail" note for its file, holding the error output of the
\* command.
C5_FailureNoteHoldsErrorOutput ==
    \A h \in Range(handed) :
        h.returncode # 0 =>
            /\ Cardinality({j \in DOMAIN s.notes :
                              /\ s.notes[j].kind = NoteUnpackFail("", <<>>, <<>>).kind
                              /\ s.notes[j].file = h.file}) = 1
            /\ \A j \in DOMAIN s.notes :
                  (s.notes[j].kind = NoteUnpackFail("", <<>>, <<>>).kind /\ s.notes[j].file = h.file)
                      => s.notes[j].stderr = ErrorOutput(h)

\* the number of passes (extractor runs followed by a check of the whole
\* target directory) at which file p was in the target directory
Passes(p) == Cardinality({a \in DOMAIN handed : p \in handed[a].content})

\* the top-level files with a recognised archive extension
Recognised(files) == {j \in DOMAIN files : CompoundSuffix(files[j]) \in DOMAIN unpackers}

\* C9: after each top-level file with a recognised extension is handed to
\* its extractor, on success and on failure alike, the whole content of the
\* target directory is checked again: a file the check does not accept has
\* one note for every pass that found it in the target, so a file in the
\* target from the i-th of k such files onward has k - i + 1 when unpack
\* returns; a file the check accepts has none.
C9_OneNotePerPass ==
    /\ \A a \in DOMAIN handed : \A p \in handed[a].content :
          /\ Count(s.notes, ContentNote(p)) = IF NonConforming(p) THEN Passes(p) ELSE 0
          /\ (/\ NonConforming(p)
              /\ \A b \in 1..(a - 1) : p \notin handed[b].content
              /\ \A b \in a..Len(handed) : p \in handed[b].content)
                => Count(s.notes, ContentNote(p)) = Len(handed) - a + 1
    /\ pc \in {"unpack loop", "raised"} => Len(handed) = Cardinality({j \in Recognised(s.files) : j < i})
    /\ pc = "call ratings" => Len(handed) = Cardinality(Recognised(s.files))

\* C9: unpack returned after two archives, the first of which failed; one
\* file has been in the target since the first, another since the second
C9_Witness ==
    /\ pc = "call ratings"
    /\ Len(handed) = 2
    /\ handed[1].returncode # 0
    /\ \E p \in handed[1].content : NonConforming(p) /\ Count(s.notes, ContentNote(p)) = 2
    /\ \E p \in handed[2].content \ handed[1].content :
          NonConforming(p) /\ Count(s.notes, ContentNote(p)) = 1

\* two note lists hold the same notes the same number of times
SameBag(m, n) == \A x \in Range(m) \cup Range(n) : Count(m, x) = Count(n, x)

\* the notes unpack() appends when the files of the current submission are
\* given in the order perm, from the filesystem the run started with
UnpackNotes(perm) ==
    unpack([s EXCEPT !.notes = <<>>, !.files = perm], Base, env.fs0, env)

\* C10 (as claimed): any two orders of the same top-level files make
\* unpack() append the same notes, each the same number of times (compared
\* where unpack returns without an exception in both orders).
C10_OrderIndependent ==
    pc = "call ratings" =>
        \A perm \in Arrangements(Range(s.files), Len(s.files), Len(s.files)) :
            UnpackNotes(perm).raised = "none"
                => SameBag(UnpackNotes(perm).self.notes, Drop(s.notes, Len(trace[1].notes)))

\* the run in steps and unpack as one call agree
StepsAgree ==
    pc = "call ratings" =>
        /\ UnpackNotes(s.files).self.notes = Drop(s.notes, Len(trace[1].notes))
        /\ UnpackNotes(s.files).files = fs

\* the report of the staging folder p when it is the only one processed,
\* from the filesystem the run started with
ReportAlone(p) ==
    LET info == submission_info(p, config, env.fs0, env.order)
        u    == unpack(validate(info.sub).self, Base, env.fs0, env)
    IN  [raised |-> u.raised, ratings |-> SubmissionRatings(u.self)]

\* C6 (as claimed): the notes a submission ends with are those it gets when
\* it is processed alone; the submissions processed before it do not change
\* them.
C6_NotesIndependentOfOthers ==
    pc = "done" =>
        \A j \in DOMAIN ratings :
            LET alone == ReportAlone(path_join(Tmp, listdir(Tmp, env.fs0, env.order)[j]))
            IN  alone.raised = "none" => ratings[j].notes = alone.ratings.notes

====
